---------------------------- MODULE Spec2Model ----------------------------
(***************************************************************************)
(* Model of the similarity scoring engine of the CV comparison system      *)
(* (src/comparison_engine.py): term canonicalisation, the three-tier term  *)
(* matcher, per-field scoring and the weighted total.                      *)
(*                                                                         *)
(* Text.  Python strings are modelled by TLA+ strings, and a character is  *)
(* a string of length 1.  TLA+ strings are ASCII, so the non-ASCII letters *)
(* the source uses are written with one ASCII stand-in each, none of which *)
(* occurs as punctuation in any modelled input:                            *)
(*     ^  U+0130 (capital I with dot)     |  U+0131 (dotless small i)      *)
(*     ~  U+0307 (combining dot above)    $  s-cedilla    &  c-cedilla     *)
(*     %  g-breve    @  o-diaeresis    !  u-diaeresis                      *)
(*     *  any of the bullet glyphs of the splitter                         *)
(*     =  capital S-cedilla    <  capital G-breve    >  capital            *)
(*     O-diaeresis    +  capital C-cedilla    /  capital U-diaeresis       *)
(*                                                                         *)
(* Numbers.  A cosine similarity is an integer number of hundredths.  A    *)
(* score is an exact fraction <<n, d>> in lowest terms.  The total is an   *)
(* integer number of thousandths (round(total_score, 3)).                  *)
(***************************************************************************)
EXTENDS Integers, Sequences, FiniteSets, TLC

VARIABLES
    SEMANTIC_MODEL,   \* "loaded" or "None"   (comparison_engine.py:21-28)
    op,               \* the last call made: "import", "find_fuzzy_commons", ...
    set_a, set_b,     \* arguments of the last find_fuzzy_commons call
    iter_order,       \* iteration order of Python sets of terms in this process
    similarity,       \* cosine of the embeddings of two distinct terms
    commons,          \* result of the last find_fuzzy_commons call
    data_a, data_b,   \* arguments of the last compare_cv_data call
    text_cosine,      \* cosine of the embeddings of the two narrative texts
    section_scores,   \* per-field scores compare_cv_data returned
    total_score,      \* total compare_cv_data returned, in thousandths
    section_weights,  \* the module global SECTION_WEIGHTS (comparison_engine.py:34-45)
    args,             \* arguments of the last call of one of the other functions
    returned,         \* what that call returned
    paired,           \* the profiles main compares          (app.py:169-177)
    pair_index,       \* <<i, j>> of the pairwise loop of main (app.py:185-186)
    comparisons,      \* the list main appends to            (app.py:183,194)
    outcome           \* of main: "none", "running", "done" or "raised"

process_vars == <<SEMANTIC_MODEL, section_weights, iter_order, similarity>>
matcher_vars == <<set_a, set_b, commons>>
engine_vars == <<data_a, data_b, text_cosine, section_scores, total_score>>
call_vars == <<args, returned>>
main_vars == <<paired, pair_index, comparisons, outcome>>
vars == <<process_vars, op, matcher_vars, engine_vars, call_vars, main_vars>>

---------------------------------------------------------------------------
(* Characters and strings *)

\* The operators on strings are written over index sets, and recursive only
\* from piece to piece, so that their evaluation stays shallow.

\* the character at position i
At(s, i) == SubSeq(s, i, i)

Min(S) == CHOOSE x \in S : \A y \in S : x <= y
Max(S) == CHOOSE x \in S : \A y \in S : y <= x

\* 1-based position of the first character c in string s, 0 when absent
IndexOf(c, s) ==
    LET hits == {i \in 1..Len(s) : At(s, i) = c}
    IN  IF hits = {} THEN 0 ELSE Min(hits)

RECURSIVE Cat(_, _, _)
\* the concatenation of the strings items[lo], ..., items[hi]
Cat(items, lo, hi) ==
    IF lo > hi THEN ""
    ELSE IF lo = hi THEN items[lo]
    ELSE LET mid == (lo + hi) \div 2
         IN  Cat(items, lo, mid) \o Cat(items, mid + 1, hi)

\* sep.join(items)
Join(sep, items) ==
    LET n == Len(items)
        parts == [i \in 1..(2 * n - 1) |->
                     IF i % 2 = 1 THEN items[(i + 1) \div 2] ELSE sep]
    IN  IF n = 0 THEN "" ELSE Cat(parts, 1, 2 * n - 1)

UPPER == "ABCDEFGHIJKLMNOPQRSTUVWXYZ=<>+/"
LOWER == "abcdefghijklmnopqrstuvwxyz$%@&!"
DIGITS == "0123456789"
WORD_EXTRA == "_|~^"
WHITESPACE == " \t\n"
QUOTE == "\""

\* the characters of a string, as a set
CharsOf(s) == {At(s, i) : i \in 1..Len(s)}

SpaceChars == CharsOf(WHITESPACE)
WordChars == CharsOf(UPPER) \cup CharsOf(LOWER) \cup CharsOf(DIGITS)
                 \cup CharsOf(WORD_EXTRA)

IsSpace(c) == c \in SpaceChars

\* the regular expression class \w
IsWord(c) == c \in WordChars

\* str.lower() of each capital; the capital dotted I becomes two characters
LowerOf ==
    [c \in CharsOf(UPPER) |-> At(LOWER, IndexOf(c, UPPER))] @@ ("^" :> "i~")

\* str.lower() of one character
LowerChar(c) == IF c \in DOMAIN LowerOf THEN LowerOf[c] ELSE c

\* str.upper() of each small letter; the dotless i becomes the plain capital
UpperOf ==
    [c \in CharsOf(LOWER) |-> At(UPPER, IndexOf(c, LOWER))] @@ ("|" :> "I")

\* the characters that have a case
CasedChars == CharsOf(UPPER) \cup CharsOf(LOWER) \cup {"|", "^"}

\* str.title(): a cased character is made a capital when the character
\* before it has no case, and small when it has
PyTitle(s) ==
    Cat([i \in 1..Len(s) |->
            IF i > 1 /\ At(s, i - 1) \in CasedChars
            THEN LowerChar(At(s, i))
            ELSE IF At(s, i) \in DOMAIN UpperOf THEN UpperOf[At(s, i)]
                 ELSE At(s, i)],
        1, Len(s))

\* str.lower()
PyLower(s) == Cat([i \in 1..Len(s) |-> LowerChar(At(s, i))], 1, Len(s))

\* str.replace(c, r) for a single character c
ReplaceChar(s, c, r) ==
    Cat([i \in 1..Len(s) |-> IF At(s, i) = c THEN r ELSE At(s, i)], 1, Len(s))

RECURSIVE RemoveAll(_, _)
\* str.replace(sub, ""): the occurrences of sub removed, left to right
RemoveAll(s, sub) ==
    LET hits == {i \in 1..(Len(s) - Len(sub) + 1) :
                     SubSeq(s, i, i + Len(sub) - 1) = sub}
    IN  IF sub = "" \/ hits = {} THEN s
        ELSE SubSeq(s, 1, Min(hits) - 1)
             \o RemoveAll(SubSeq(s, Min(hits) + Len(sub), Len(s)), sub)

\* re.sub(r'[^\w\s]', ' ', s)
SubNonWord(s) ==
    Cat([i \in 1..Len(s) |->
            IF IsWord(At(s, i)) \/ IsSpace(At(s, i)) THEN At(s, i) ELSE " "],
        1, Len(s))

\* str.strip()
Strip(s) ==
    LET solid == {i \in 1..Len(s) : ~IsSpace(At(s, i))}
    IN  IF solid = {} THEN "" ELSE SubSeq(s, Min(solid), Max(solid))

\* str.split(): the maximal runs of non-whitespace, in order
SplitWords(s) ==
    LET starts == {i \in 1..Len(s) :
                      /\ ~IsSpace(At(s, i))
                      /\ (i = 1 \/ IsSpace(At(s, i - 1)))}
        start(k) == CHOOSE i \in starts :
                        Cardinality({j \in starts : j < i}) = k - 1
        stop(i) == Min({j \in i..Len(s) :
                           j = Len(s) \/ IsSpace(At(s, j + 1))})
    IN  [k \in 1..Cardinality(starts) |-> SubSeq(s, start(k), stop(start(k)))]

\* Python's  sub in s  for strings
Contains(sub, s) ==
    \E i \in 0..(Len(s) - Len(sub)) : SubSeq(s, i + 1, i + Len(sub)) = sub

---------------------------------------------------------------------------
(* Python values.  Every value is a record of one shape: t is the type,    *)
(* s the text of a str or the decimal digits of an int, items the elements *)
(* of a list or the entries of a dict in insertion order.                  *)

None == [t |-> "none", s |-> "", items |-> <<>>]
Str(x) == [t |-> "str", s |-> x, items |-> <<>>]
Num(x) == [t |-> "num", s |-> x, items |-> <<>>]
List(xs) == [t |-> "list", s |-> "", items |-> xs]
\* one entry key: value of a dict
Entry(k, v) == [t |-> "entry", s |-> k, items |-> <<v>>]
Dict(es) == [t |-> "dict", s |-> "", items |-> es]

\* bool(v)
Truthy(v) ==
    CASE v.t = "none" -> FALSE
      [] v.t = "str" -> v.s # ""
      [] v.t = "num" -> v.s # "0"
      [] OTHER -> v.items # <<>>

\* key in d, for a dict d
DictHas(d, k) == \E i \in 1..Len(d.items) : d.items[i].s = k
\* d[key]
DictGet(d, k) ==
    d.items[CHOOSE i \in 1..Len(d.items) : d.items[i].s = k].items[1]

RECURSIVE PyRepr(_)
\* repr(v); the modelled strings hold no quote, backslash or control
\* character, so a str is written between single quotes unchanged
PyRepr(v) ==
    CASE v.t = "none" -> "None"
      [] v.t = "str" -> "'" \o v.s \o "'"
      [] v.t = "num" -> v.s
      [] v.t = "list" ->
            "[" \o Join(", ", [i \in 1..Len(v.items) |-> PyRepr(v.items[i])])
                \o "]"
      [] v.t = "dict" ->
            "{" \o Join(", ", [i \in 1..Len(v.items) |->
                        "'" \o v.items[i].s \o "': "
                            \o PyRepr(v.items[i].items[1])])
                \o "}"

\* str(v)
PyStr(v) == IF v.t = "str" THEN v.s ELSE PyRepr(v)

RECURSIVE JsonDumps(_)
\* json.dumps(v, ensure_ascii=False), for strings that need no escaping
JsonDumps(v) ==
    CASE v.t = "none" -> "null"
      [] v.t = "str" -> QUOTE \o v.s \o QUOTE
      [] v.t = "num" -> v.s
      [] v.t = "list" ->
            "[" \o Join(", ", [i \in 1..Len(v.items) |-> JsonDumps(v.items[i])])
                \o "]"
      [] v.t = "dict" ->
            "{" \o Join(", ", [i \in 1..Len(v.items) |->
                        QUOTE \o v.items[i].s \o QUOTE \o ": "
                            \o JsonDumps(v.items[i].items[1])])
                \o "}"

---------------------------------------------------------------------------
(* Term canonicalisation *)

STOPWORDS == {
    "ve", "ile", "i&in", "bir", "bu", "$u", "o", "de", "da", "ki", "mi", "m|",
    "olarak", "olan", "ilgili", "gibi", "!zere", "!zerinde", "taraf|ndan",
    "birlikte", "yapt|m", "ettim", "sa%lad|m", "geli$tirdim", "&al|$t|m",
    "bulundum", "uygulad|m", "y@nettim", "belirledim", "olu$turdum",
    "g!&lendirdim", "haz|rlad|m", "tasarlad|m", "destek", "g@rev", "ald|m",
    "proje", "ekibi", "deneyim", "y|l", "ay", "kullan|m|", "bilgisi",
    "hakk|nda"}

LANGUAGE_LEVELS == <<
    "a1", "a2", "b1", "b2", "c1", "c2",
    "ba$lang|&", "orta", "ileri", "native", "fluent",
    "beginner", "intermediate", "advanced", "ana dil", "seviye", "level">>

tr_lower(text) ==
    IF text = "" THEN ""
    ELSE PyLower(ReplaceChar(ReplaceChar(text, "^", "i"), "I", "|"))

clean_stopwords(text) ==
    IF text = "" THEN ""
    ELSE
        LET words == SplitWords(SubNonWord(tr_lower(text)))
            cleaned_words ==
                SelectSeq(words, LAMBDA w : w \notin STOPWORDS /\ Len(w) > 1)
        IN  Join(" ", cleaned_words)

RECURSIVE RemoveLevels(_, _, _)
\* for level in LANGUAGE_LEVELS[lo..hi]: text = text.replace(level, "");
\* the loop is cut in halves so that its evaluation stays shallow, and the
\* empty text, which no replacement changes, is returned at once
RemoveLevels(text, lo, hi) ==
    IF text = "" \/ lo > hi THEN text
    ELSE IF lo = hi THEN RemoveAll(text, LANGUAGE_LEVELS[lo])
    ELSE LET mid == (lo + hi) \div 2
         IN  RemoveLevels(RemoveLevels(text, lo, mid), mid + 1, hi)

clean_term(text, is_language) ==
    LET lowered == tr_lower(text)
        unquoted ==
            ReplaceChar(ReplaceChar(ReplaceChar(ReplaceChar(
                lowered, "[", ""), "]", ""), "'", ""), QUOTE, "")
        words == SubNonWord(unquoted)
    IN  Strip(IF is_language THEN RemoveLevels(words, 1, Len(LANGUAGE_LEVELS)) ELSE words)

\* the characters of the first alternative of the splitter
SEPARATORS == ",\n;\t*"
SepChars == CharsOf(SEPARATORS)

IsSep(c) == c \in SepChars

\* the last position of the run of characters of the class chars that
\* starts at position i
RunEnd(s, i, chars) ==
    Min({j \in i..Len(s) : j = Len(s) \/ At(s, j + 1) \notin chars})

RECURSIVE ReSplit(_)
\* re.split(r'[,\n;\•\t■▪●]+|\s{2,}', s): the text before the first match,
\* then the split of the text after it
ReSplit(s) ==
    LET starts == {i \in 1..Len(s) :
                      \/ IsSep(At(s, i))
                      \/ /\ IsSpace(At(s, i))
                         /\ i < Len(s)
                         /\ IsSpace(At(s, i + 1))}
    IN  IF starts = {} THEN <<s>>
        ELSE LET d == Min(starts)
                 e == IF IsSep(At(s, d)) THEN RunEnd(s, d, SepChars)
                      ELSE RunEnd(s, d, SpaceChars)
             IN  <<SubSeq(s, 1, d - 1)>> \o ReSplit(SubSeq(s, e + 1, Len(s)))

possible_keys ==
    <<"dil", "name", "yetenek", "Kurum", "school", "title", "company">>

RECURSIVE KeyedText(_, _)
\* the loop over possible_keys from index i on: the text of the first key
\* found, "" when none is
KeyedText(item, i) ==
    IF i > Len(possible_keys) THEN ""
    ELSE LET key == possible_keys[i] IN
         IF DictHas(item, key) THEN PyStr(DictGet(item, key))
         ELSE IF DictHas(item, PyLower(key))
              THEN PyStr(DictGet(item, PyLower(key)))
         ELSE KeyedText(item, i + 1)

\* text_val of one raw item
ItemText(item) ==
    IF item.t = "dict"
    THEN LET keyed == KeyedText(item, 1) IN
         IF keyed # "" THEN keyed
         ELSE Join(" ", [i \in 1..Len(item.items) |->
                            PyStr(item.items[i].items[1])])
    ELSE PyStr(item)

\* the terms of one raw item with the single characters kept
ItemTermsKeepsShort(item, is_lang) ==
    LET splitted_items == ReSplit(ItemText(item))
        cleaned == {clean_term(splitted_items[i], is_lang) :
                       i \in 1..Len(splitted_items)}
    IN  {c \in cleaned : c # ""}

\* the terms one raw item adds to the set
ItemTerms(item, is_lang) ==
    LET splitted_items == ReSplit(ItemText(item))
        cleaned == {clean_term(splitted_items[i], is_lang) :
                       i \in 1..Len(splitted_items)}
    IN  {c \in cleaned : c # "" /\ (Len(c) > 1 \/ c \in {"c", "r"})}

normalize_set(data_list, field_type) ==
    IF ~Truthy(data_list) THEN {}
    ELSE
        LET raw_items ==
                IF data_list.t = "str" THEN <<data_list>>
                ELSE IF data_list.t = "list" THEN data_list.items
                ELSE <<Str(PyStr(data_list))>>
            is_lang == (field_type = "YABANCI_D^L")
        IN  UNION {ItemTerms(raw_items[i], is_lang) : i \in 1..Len(raw_items)}

---------------------------------------------------------------------------
(* The three-tier term matcher *)

\* hundredths; the default of the threshold parameter
DEFAULT_THRESHOLD == 80

\* list(S) for a Python set S of terms: the terms of S in this process's
\* iteration order
ListOf(S, order) == SelectSeq(order, LAMBDA t : t \in S)

\* cosine_similarity of the embeddings of two terms, in hundredths
Cos(sim, x, y) == IF x = y THEN 100 ELSE sim[{x, y}]

\* term_a in term_b or term_b in term_a, for some term_b of diff_b
ContainedIn(term_a, diff_b) ==
    \E j \in 1..Len(diff_b) :
        Contains(term_a, diff_b[j]) \/ Contains(diff_b[j], term_a)

\* a containment step that also takes the B-side terms of the match
ContainmentStepBothSides(acc, i, term_a, diff_b) ==
    IF ContainedIn(term_a, diff_b)
    THEN [commons |-> acc.commons \cup {term_a}
                          \cup {diff_b[j] : j \in {k \in 1..Len(diff_b) :
                                   Contains(term_a, diff_b[k])
                                       \/ Contains(diff_b[k], term_a)}},
          matched_indices_a |-> acc.matched_indices_a \cup {i}]
    ELSE acc

\* a containment step that forgets the matches found before it
ContainmentStepForgets(acc, i, term_a, diff_b) ==
    IF ContainedIn(term_a, diff_b)
    THEN [commons |-> {term_a},
          matched_indices_a |-> acc.matched_indices_a \cup {i}]
    ELSE acc

\* one pass of the outer loop of tier 2; acc = [commons, matched_indices_a]
ContainmentStep(acc, i, term_a, diff_b) ==
    IF ContainedIn(term_a, diff_b)
    THEN [commons |-> acc.commons \cup {term_a},
          matched_indices_a |-> acc.matched_indices_a \cup {i}]
    ELSE acc

RECURSIVE ContainmentTier(_, _, _, _)
\* the loop of tier 2 from index i on
ContainmentTier(diff_a, diff_b, i, acc) ==
    IF i > Len(diff_a) THEN acc
    ELSE ContainmentTier(diff_a, diff_b, i + 1,
             ContainmentStep(acc, i, diff_a[i], diff_b))

\* np.argmax of a row: the first index holding the largest value
ArgMax(row) ==
    CHOOSE k \in 1..Len(row) :
        /\ \A j \in 1..Len(row) : row[j] <= row[k]
        /\ \A j \in 1..(k - 1) : row[j] < row[k]

\* the row of the similarity matrix for term_a
SimilarityRow(term_a, diff_b, sim) ==
    [j \in 1..Len(diff_b) |-> Cos(sim, term_a, diff_b[j])]

\* a semantic step that takes the B-side term of the match
SemanticStepTakesB(acc, term_a, diff_b, sim, threshold) ==
    LET row == SimilarityRow(term_a, diff_b, sim)
    IN  IF row[ArgMax(row)] > threshold
        THEN acc \cup {diff_b[ArgMax(row)]} ELSE acc

\* a semantic step that also accepts a best score equal to the threshold
SemanticStepAtThreshold(acc, term_a, diff_b, sim, threshold) ==
    LET row == SimilarityRow(term_a, diff_b, sim)
    IN  IF row[ArgMax(row)] >= threshold THEN acc \cup {term_a} ELSE acc

\* one pass of the loop of tier 3; acc is commons
SemanticStep(acc, term_a, diff_b, sim, threshold) ==
    LET row == SimilarityRow(term_a, diff_b, sim)
        best_match_idx == ArgMax(row)
        best_score == row[best_match_idx]
    IN  IF best_score > threshold THEN acc \cup {term_a} ELSE acc

RECURSIVE SemanticTier(_, _, _, _, _, _)
\* the loop of tier 3 from index i on
SemanticTier(remaining_a, diff_b, sim, threshold, i, acc) ==
    IF i > Len(remaining_a) THEN acc
    ELSE SemanticTier(remaining_a, diff_b, sim, threshold, i + 1,
             SemanticStep(acc, remaining_a[i], diff_b, sim, threshold))

\* the terms of diff_a whose index tier 2 did not mark, in order
RemainingA(diff_a, matched_indices_a) ==
    LET keep == {i \in 1..Len(diff_a) : i \notin matched_indices_a}
        RECURSIVE Pick(_)
        Pick(i) == IF i > Len(diff_a) THEN <<>>
                   ELSE (IF i \in keep THEN <<diff_a[i]>> ELSE <<>>)
                            \o Pick(i + 1)
    IN  Pick(1)

find_fuzzy_commons(sa, sb, threshold, model, sim, order) ==
    IF sa = {} \/ sb = {} THEN {}
    ELSE
        LET exact == sa \cap sb
            diff_a == ListOf(sa \ exact, order)
            diff_b == ListOf(sb \ exact, order)
        IN  IF diff_a = <<>> \/ diff_b = <<>> THEN exact
            ELSE
                LET t2 == ContainmentTier(diff_a, diff_b, 1,
                              [commons |-> exact, matched_indices_a |-> {}])
                    remaining_a == RemainingA(diff_a, t2.matched_indices_a)
                IN  IF remaining_a # <<>> /\ model # "None"
                    THEN SemanticTier(remaining_a, diff_b, sim, threshold, 1,
                                      t2.commons)
                    ELSE t2.commons

---------------------------------------------------------------------------
(* Exact fractions *)

RECURSIVE GCD(_, _)
GCD(a, b) == IF b = 0 THEN a ELSE GCD(b, a % b)

\* n / d in lowest terms, d > 0
Frac(n, d) ==
    LET g == GCD(IF n < 0 THEN -n ELSE n, d)
    IN  <<n \div g, d \div g>>

FracAdd(x, y) == Frac(x[1] * y[2] + y[1] * x[2], x[2] * y[2])
FracMul(x, y) == Frac(x[1] * y[1], x[2] * y[2])
FracLeq(x, y) == x[1] * y[2] <= y[1] * x[2]

ZERO == <<0, 1>>
ONE == <<1, 1>>

\* round(x, 3) in thousandths, for x >= 0.  The float that Python rounds is
\* the nearest double to a sum of rounded products, so a value that is
\* exactly halfway between two thousandths may fall on either side of the
\* half: up tells the side it falls on.
Round3(x, up) ==
    LET q == (x[1] * 1000) \div x[2]
        r == (x[1] * 1000) % x[2]
    IN  IF 2 * r < x[2] THEN q
        ELSE IF 2 * r > x[2] THEN q + 1
        ELSE IF up THEN q + 1 ELSE q

---------------------------------------------------------------------------
(* The raw field values of the profiles that are compared *)

\* raw values of a list field
ListValues == {
    List(<<>>),
    List(<<Str("Python"), Str("Excel")>>),
    List(<<Str("python programming"), Str("microsoft excel")>>),
    Str("Py; Python"),
    Str("English (B2)"),
    List(<<Dict(<<Entry("dil", Str("English")), Entry("seviyesi", Str(""))>>)>>)}

\* raw values of a narrative field: a text of stopwords only, and an entry
\* as the extractor writes it
TextValues == {
    Str("ve ile"),
    List(<<Dict(<<Entry("Raw_Entry", Str("Yaz|l|m M!hendisi"))>>)>>)}

\* cosines of two narrative texts, in hundredths
CosValues == {-50, 50, 90, 100}

\* json.dumps for a list, str for anything else
FieldText(val) == IF val.t = "list" THEN JsonDumps(val) ELSE PyStr(val)

\* normalize_set of the raw values above, computed once; the second
\* argument tells whether the field is the language field
CanonicalSets ==
    [v \in ListValues, is_lang \in BOOLEAN |->
        normalize_set(v, IF is_lang THEN "YABANCI_D^L" ELSE "")] @@ <<>>

\* clean_stopwords of the texts of the raw values above, computed once
CleanedTexts ==
    [text \in {FieldText(v) : v \in TextValues \cup {List(<<>>)}} |->
        clean_stopwords(text)] @@ <<>>

---------------------------------------------------------------------------
(* Field lookup and scoring *)

DENEYIM == "DENEY^M"
YETENEKLER == "YETENEKLER"
TEKNIK_BECERILER == "TEKN^K_BECER^LER"
EGITIM == "E<^T^M"
OZET == ">ZET"
YABANCI_DIL == "YABANCI_D^L"
KURSLAR == "KURSLAR"
SERTIFIKALAR == "SERT^F^KALAR"
KISISEL_BECERILER == "K^=^SEL_BECER^LER"
REFERANSLAR == "REFERANSLAR"
PROJELER == "PROJELER"

\* the weight table without its last entry
SECTION_WEIGHTS_SHORT == <<
    <<DENEYIM, 35>>, <<YETENEKLER, 25>>, <<TEKNIK_BECERILER, 15>>,
    <<EGITIM, 10>>, <<OZET, 5>>, <<YABANCI_DIL, 3>>, <<KURSLAR, 3>>,
    <<SERTIFIKALAR, 2>>, <<KISISEL_BECERILER, 1>>>>

\* the dict SECTION_WEIGHTS in insertion order; weights in hundredths
SECTION_WEIGHTS == <<
    <<DENEYIM, 35>>, <<YETENEKLER, 25>>, <<TEKNIK_BECERILER, 15>>,
    <<EGITIM, 10>>, <<OZET, 5>>, <<YABANCI_DIL, 3>>, <<KURSLAR, 3>>,
    <<SERTIFIKALAR, 2>>, <<KISISEL_BECERILER, 1>>, <<REFERANSLAR, 1>>>>

list_fields == <<YETENEKLER, TEKNIK_BECERILER, YABANCI_DIL,
                 KISISEL_BECERILER, KURSLAR, SERTIFIKALAR, REFERANSLAR>>

semantic_fields == <<DENEYIM, EGITIM, OZET, PROJELER>>

Range(f) == {f[i] : i \in DOMAIN f}

\* the four spellings with the lower-cased one tried before the name itself
KeyVariantsLowerFirst(k) ==
    <<PyLower(k), k, ReplaceChar(k, "_", " "),
      ReplaceChar(PyLower(k), "_", " ")>>

\* the four spellings of key k that get_field_data tries, in order
KeyVariants(k) ==
    <<k, PyLower(k), ReplaceChar(k, "_", " "),
      ReplaceChar(PyLower(k), "_", " ")>>

\* the spellings of the field names the engine asks for, computed once
FieldSpellings ==
    [k \in Range(list_fields) \cup Range(semantic_fields) |-> KeyVariants(k)]
        @@ <<>>

Spellings(k) ==
    IF k \in DOMAIN FieldSpellings THEN FieldSpellings[k] ELSE KeyVariants(k)

RECURSIVE get_field_data_from(_, _, _)
\* the loop over keys from index i on: the value under the first spelling
\* that is a key of data
get_field_data_from(data, keys, i) ==
    IF i > Len(keys) THEN List(<<>>)
    ELSE LET spellings == Spellings(keys[i])
             found == {j \in 1..4 : spellings[j] \in DOMAIN data}
         IN  IF found # {} THEN data[spellings[Min(found)]]
             ELSE get_field_data_from(data, keys, i + 1)

get_field_data(data, keys) == get_field_data_from(data, keys, 1)

\* clean_stopwords(text), looked up when it was computed before
Cleaned(text) ==
    IF text \in DOMAIN CleanedTexts THEN CleanedTexts[text]
    ELSE clean_stopwords(text)

\* normalize_set(data_list, field_type), looked up when it was computed before
Normalized(data_list, field_type) ==
    LET key == <<data_list, field_type = "YABANCI_D^L">>
    IN  IF key \in DOMAIN CanonicalSets THEN CanonicalSets[key]
        ELSE normalize_set(data_list, field_type)

\* the cosine as it is, with no lower bound
RawCosine(c) == c

\* max(0.0, cosine), in hundredths
ClipCosine(c) == IF c < 0 THEN 0 ELSE c

\* raw_score ** 2
Square(raw_score) == FracMul(Frac(raw_score, 100), Frac(raw_score, 100))

\* raw_score ** 3
Cube(raw_score) ==
    FracMul(Frac(raw_score, 100),
            FracMul(Frac(raw_score, 100), Frac(raw_score, 100)))

\* the similarity of two texts computed without asking whether the model
\* was loaded
similarity_without_model_guard(text1, text2, model, cos) ==
    IF text1 = "" \/ text2 = "" THEN ZERO
    ELSE IF Cleaned(text1) = "" \/ Cleaned(text2) = ""
         THEN ZERO
         ELSE Cube(ClipCosine(cos))

\* cos is the cosine of the embeddings of the two cleaned texts, hundredths
calculate_semantic_similarity(text1, text2, model, cos) ==
    IF model = "None" \/ text1 = "" \/ text2 = "" THEN ZERO
    ELSE
        LET clean1 == Cleaned(text1)
            clean2 == Cleaned(text2)
        IN  IF clean1 = "" \/ clean2 = "" THEN ZERO
            ELSE LET raw_score == ClipCosine(cos)
                 IN  Cube(raw_score)

\* the canonical set of one list field of a profile
FieldSet(data, field) == Normalized(get_field_data(data, <<field>>), field)

\* len(commons) over the size of the first set
OverlapScoreOverA(cs, sa, sb) ==
    IF Cardinality(sa) > 0 THEN Frac(Cardinality(cs), Cardinality(sa)) ELSE ZERO

\* len(commons) / union_len, but 1.0 when the union is empty
OverlapScoreEmptyIsOne(cs, sa, sb) ==
    LET union_len == Cardinality(sa \cup sb)
    IN  IF union_len > 0 THEN Frac(Cardinality(cs), union_len) ELSE ONE

\* len(commons) / union_len, 0.0 when the union is empty
OverlapScore(cs, sa, sb) ==
    LET union_len == Cardinality(sa \cup sb)
    IN  IF union_len > 0 THEN Frac(Cardinality(cs), union_len) ELSE ZERO

\* the score of a list field from its two canonical sets
SetScore(sa, sb, model, sim, order) ==
    OverlapScore(find_fuzzy_commons(sa, sb, DEFAULT_THRESHOLD, model, sim, order),
                 sa, sb)

\* one pass of the loop over list_fields
ListFieldScore(data_1, data_2, field, model, sim, order) ==
    SetScore(FieldSet(data_1, field), FieldSet(data_2, field), model, sim, order)

\* one pass of the loop over semantic_fields
SemanticFieldScore(data_1, data_2, field, model, cos) ==
    calculate_semantic_similarity(
        FieldText(get_field_data(data_1, <<field>>)),
        FieldText(get_field_data(data_2, <<field>>)), model, cos)

\* a term of the total that leaves the weight out
UnweightedTerm(score, weight) == score

\* section_scores[section] * weight
WeightedTerm(score, weight) == FracMul(score, Frac(weight, 100))

RECURSIVE WeightedSum(_, _, _, _)
\* the loop over weights.items(), for the items lo..hi: the sum of the
\* terms of the sections that have a score.  The sum is exact, so the order
\* of the additions does not matter; it is taken in halves so that its
\* evaluation stays shallow.
WeightedSum(weights, scores, lo, hi) ==
    IF lo > hi THEN ZERO
    ELSE IF lo = hi
    THEN LET section == weights[lo][1]
             weight == weights[lo][2]
         IN  IF section \in DOMAIN scores
             THEN WeightedTerm(scores[section], weight)
             ELSE ZERO
    ELSE LET mid == (lo + hi) \div 2
         IN  FracAdd(WeightedSum(weights, scores, lo, mid),
                     WeightedSum(weights, scores, mid + 1, hi))

\* no spelling of field is a key of data
FieldAbsent(data, field) ==
    \A j \in 1..4 : Spellings(field)[j] \notin DOMAIN data

\* scores for the list fields both profiles hold, and no entry for the rest
ScorePresentListFields(data_1, data_2, model, sim, order) ==
    [field \in {f \in Range(list_fields) :
                   ~FieldAbsent(data_1, f) /\ ~FieldAbsent(data_2, f)} |->
        ListFieldScore(data_1, data_2, field, model, sim, order)] @@ <<>>

\* section_scores after the loop over list_fields
ScoreListFields(data_1, data_2, model, sim, order) ==
    [field \in Range(list_fields) |->
        ListFieldScore(data_1, data_2, field, model, sim, order)] @@ <<>>

\* the entries the loop over semantic_fields adds to section_scores
ScoreSemanticFields(data_1, data_2, model, cos) ==
    [field \in Range(semantic_fields) |->
        SemanticFieldScore(data_1, data_2, field, model, cos)] @@ <<>>

\* the total of the per-field scores, in thousandths
WeightedTotal(weights, scores, up) ==
    Round3(WeightedSum(weights, scores, 1, Len(weights)), up)

\* the (total, per-field scores) compare_cv_data returns; the weights are
\* those the module global SECTION_WEIGHTS holds when the call is made
compare_cv_data(data_1, data_2, model, sim, order, cos, up) ==
    LET scores == ScoreSemanticFields(data_1, data_2, model, cos)
                      @@ ScoreListFields(data_1, data_2, model, sim, order)
    IN  [section_scores |-> scores,
         total_score |-> WeightedTotal(section_weights, scores, up)]

---------------------------------------------------------------------------
(* The report *)

RECURSIVE IntStr(_)
\* the decimal digits of a natural number
IntStr(n) ==
    IF n < 10 THEN At(DIGITS, n + 1)
    ELSE IntStr(n \div 10) \o At(DIGITS, (n % 10) + 1)

\* format(x, ".1f") for x given as a whole number of tenths
FormatTenths(tenths) == IntStr(tenths \div 10) \o "." \o IntStr(tenths % 10)

\* score * 100 in tenths, to the nearest tenth; the cube of a number of
\* hundredths is never halfway between two tenths
PercentTenths(score) == Round3(score, FALSE)

\* the first line; total_score * 100 for a total in thousandths is that
\* many tenths
HeaderLine(total) ==
    "--- Kar$|la$t|rma Raporu (Genel Skor: " \o FormatTenths(total) \o "%) ---"

HIGH_LINE == "-> >zet: Adaylar Y!ksek Uyumlu."
MEDIUM_LINE == "-> >zet: Adaylar Orta Uyumlu."
LOW_LINE == "-> >zet: Adaylar D!$!k Uyumlu."

\* a verdict whose upper band starts at 0.75 itself
VerdictLineFromThreshold(total) ==
    IF total >= 750 THEN HIGH_LINE
    ELSE IF total > 500 THEN MEDIUM_LINE
    ELSE LOW_LINE

\* the if / elif / else on total_score, in thousandths
VerdictLine(total) ==
    IF total > 750 THEN HIGH_LINE
    ELSE IF total > 500 THEN MEDIUM_LINE
    ELSE LOW_LINE

\* section_scores.get('DENEYIM', 0) as a percentage
ExperienceLine(scores) ==
    "-> DENEY^M UYUMU: %"
        \o FormatTenths(PercentTenths(
               IF DENEYIM \in DOMAIN scores THEN scores[DENEYIM] ELSE ZERO))

check_fields == <<
    <<YETENEKLER, "ORTAK YETENEKLER">>,
    <<TEKNIK_BECERILER, "ORTAK TEKN^K BECER^LER">>,
    <<YABANCI_DIL, "ORTAK D^LLER">>,
    <<KISISEL_BECERILER, "ORTAK K^=^SEL BECER^LER">>,
    <<SERTIFIKALAR, "ORTAK SERT^F^KALAR">>,
    <<KURSLAR, "ORTAK KURSLAR">>>>

\* every term joined, however many there are
DisplayStrUncut(common_list) == Join(", ", common_list)

\* ', '.join(common_list[:10]), and "..." after it for a longer list
DisplayStr(common_list) ==
    Join(", ", SubSeq(common_list, 1, Min({10, Len(common_list)})))
        \o (IF Len(common_list) > 10 THEN "..." ELSE "")

\* find_fuzzy_commons of the two canonical sets of a field of check_fields
ReportCommon(data_1, data_2, field_key, model, sim, order) ==
    find_fuzzy_commons(FieldSet(data_1, field_key), FieldSet(data_2, field_key),
                       DEFAULT_THRESHOLD, model, sim, order)

\* the line of the non-empty set common under title
CommonLine(title, common, order) ==
    LET listed == ListOf(common, order)
        common_list == [i \in 1..Len(listed) |-> PyTitle(listed[i])]
    IN  "-> " \o title \o ": " \o DisplayStr(common_list)

\* the lines the loop over check_fields appends: one for each field whose
\* common set is not empty, in the order of check_fields
CommonLines(data_1, data_2, model, sim, order) ==
    LET common == [k \in 1..Len(check_fields) |->
                      ReportCommon(data_1, data_2, check_fields[k][1],
                                   model, sim, order)] @@ <<>>
        shown == {k \in 1..Len(check_fields) : common[k] # {}}
        nth(n) == CHOOSE k \in shown :
                      Cardinality({j \in shown : j < k}) = n - 1
    IN  [n \in 1..Cardinality(shown) |->
            CommonLine(check_fields[nth(n)][2], common[nth(n)], order)]

\* the list of lines generate_report returns; total_score in thousandths
generate_report(data_1, data_2, total, scores, model, sim, order) ==
    <<HeaderLine(total), VerdictLine(total), ExperienceLine(scores)>>
        \o CommonLines(data_1, data_2, model, sim, order)

---------------------------------------------------------------------------
(* Bounded inputs *)

\* at most this many terms in one argument set of the matcher
MaxTerms == 3
\* at most this many pairs of terms whose cosine is not the low value
MaxNear == 2

\* at most this many profiles in one run of main
MaxCvs == 3

\* the cosines of two terms, in hundredths: unrelated terms, similar terms
TermCosines == [low |-> 30, high |-> 90]

\* the cosines of the pairs of distinct terms of a universe: the low one but for
\* at most MaxNear pairs, which take one of the given levels
OraclesOver(pairs, levels) ==
    UNION {
        {[p \in pairs |-> IF p \in N THEN g[p] ELSE TermCosines.low] :
            g \in [N -> levels]} :
        N \in {M \in SUBSET pairs : Cardinality(M) <= MaxNear}}

PairsOf(terms) == {P \in SUBSET terms : Cardinality(P) = 2}

\* the orders in which a Python set may list the terms of a universe
Orders(S) ==
    {f \in [1..Cardinality(S) -> S] : \A x \in S : \E i \in DOMAIN f : f[i] = x}

\* canonical terms for the matcher called on its own; "py" is inside
\* "python", which is inside "python programming"; "excel" is unrelated
MatchTerms == {"py", "python", "python programming", "excel"}

TermSets == {S \in SUBSET MatchTerms : Cardinality(S) <= MaxTerms}

\* the threshold itself is one of the cosines, to separate > from >=
Oracles == OraclesOver(PairsOf(MatchTerms), {DEFAULT_THRESHOLD, TermCosines.high})

\* marks a field a profile has no key for
Absent == [t |-> "absent", s |-> "", items |-> <<>>]

\* a profile holding list field lf and narrative field nf, each unless Absent
MakeProfile(lf, v, nf, txt) ==
    [k \in (IF v = Absent THEN {} ELSE {lf})
           \cup (IF txt = Absent THEN {} ELSE {nf}) |->
        IF k = lf THEN v ELSE txt]

\* the canonical terms the list values give
EngineTerms ==
    UNION {normalize_set(v, f) : v \in ListValues, f \in {YETENEKLER, YABANCI_DIL}}

\* a pair of terms of which neither contains the other, so that the
\* matcher may read their cosine
EngineNearPairs == {{"excel", "py"}}

\* every cosine low, or that of the pair above high
EngineOracles ==
    {[p \in PairsOf(EngineTerms) |->
         IF p \in N THEN TermCosines.high ELSE TermCosines.low] :
        N \in {{}} \cup {{p} : p \in EngineNearPairs}}

\* the two texts of field nf are both non-empty once cleaned, so that a
\* loaded model gives them a cosine
BothTextsUsable(d1, d2, nf) ==
    /\ Cleaned(FieldText(get_field_data(d1, <<nf>>))) # ""
    /\ Cleaned(FieldText(get_field_data(d2, <<nf>>))) # ""

\* the field names get_field_data is asked for when called on its own
LookupFields == {TEKNIK_BECERILER, YABANCI_DIL, YETENEKLER}

\* a key no field name is spelled as
OTHER_KEY == "ad_soyad"

\* the profiles get_field_data is called on: under any of the spellings of a
\* field name, and possibly under another key, a value that tells the key
LookupProfiles ==
    UNION {{[key \in present |-> Str("under " \o key)] :
               present \in SUBSET (Range(KeyVariants(k)) \cup {OTHER_KEY})} :
           k \in LookupFields}

\* the key lists: one field name, as compare_cv_data and generate_report
\* pass, or two
LookupKeys ==
    {<<k>> : k \in LookupFields}
        \cup {<<k1, k2>> : k1 \in {YETENEKLER}, k2 \in {TEKNIK_BECERILER}}

\* the raw values normalize_set is called on when called on its own: None,
\* empty values, numbers, strings, lists of strings, numbers and records,
\* and a bare record
RawValues == {
    None, Str(""), List(<<>>), Dict(<<>>), Num("0"), Num("7"),
    Str("C"), Str("  R ;x, Go  lang\tc"), Str("English (B2)"),
    Str("'C#'; [SQL] * b2r"), Str("^stanbul, I|"), Str(" ; ,  "),
    List(<<Str(" a "), Str("Py"), Num("42"), None>>),
    List(<<Dict(<<Entry("dil", Str("English")), Entry("seviyesi", Str(""))>>)>>),
    List(<<Dict(<<Entry("seviye", Str("B")), Entry("not", Str(" iyi"))>>)>>),
    Dict(<<Entry("name", Str("Ada"))>>)}

\* the field types normalize_set is called with
FieldTypes == {""} \cup Range(list_fields)

\* the texts calculate_semantic_similarity is called on when called on its
\* own: the empty string, stopwords only, the dump of an empty list, and
\* two texts that keep words when cleaned
SimilarityTexts ==
    {"", "ve ile", "[]", "Python geli$tirici", "Proje y@netimi ve analiz"}

\* the cosines of two cleaned texts, in hundredths
TextCosines == {-100, -50, -1, 0, 1, 50, 80, 90, 100}

RECURSIVE SetToSeq(_)
SetToSeq(S) ==
    IF S = {} THEN <<>>
    ELSE LET x == CHOOSE y \in S : TRUE IN <<x>> \o SetToSeq(S \ {x})

EngineOrder == SetToSeq(EngineTerms)

\* whole profiles, as the extractor hands them to main: skills as a list,
\* the language field under its lower-cased key, experience as text
CvPython ==
    (YETENEKLER :> List(<<Str("Python"), Str("Excel")>>))
        @@ ("yabanci_di~l" :> Str("English (B2)"))
        @@ (DENEYIM :> Str("Python geli$tirici"))

\* skills that contain those of CvPython, experience as a list of entries
CvProgramming ==
    (YETENEKLER :> List(<<Str("python programming"), Str("microsoft excel")>>))
        @@ (YABANCI_DIL :> Str("English"))
        @@ (DENEYIM :>
               List(<<Dict(<<Entry("Raw_Entry", Str("Yaz|l|m M!hendisi"))>>)>>))

\* eleven skills in one string, courses, and a field the report has no
\* rule for
CvManySkills ==
    (YETENEKLER :> Str("aa, bb, cc, dd, ee, ff, gg, hh, jj, kk, ll"))
        @@ (KURSLAR :> Str("Py; Python"))
        @@ (REFERANSLAR :> Str("Ada Lovelace"))

\* a profile with no field at all
CvEmpty == [k \in {} |-> None]

Profiles == {CvPython, CvProgramming, CvManySkills, CvEmpty}

\* the canonical terms of the list fields of these profiles
ProfileTerms ==
    UNION {FieldSet(cv, field) : cv \in Profiles, field \in Range(list_fields)}

ProfileOrder == SetToSeq(ProfileTerms)

\* every cosine low, or that of one pair of terms of which neither contains
\* the other high
ProfileOracles ==
    {[p \in PairsOf(ProfileTerms) |->
         IF p \in N THEN TermCosines.high ELSE TermCosines.low] :
        N \in {{}, {{"aa", "excel"}}}}

\* the totals generate_report is called with when called on its own, in
\* thousandths: the two thresholds and their neighbours
ReportTotals == {0, 500, 501, 750, 751, 1000}

\* the per-field scores it is called with: none, or one for experience
ReportScores ==
    {<<>>} \cup {(DENEYIM :> Cube(c)) : c \in {0, 50, 90, 100}}

\* find_fuzzy_commons(sa, sb) gets as far as SEMANTIC_MODEL.encode: both
\* sets have terms without an exact match, and tier 2 left an A-term over
ReachesSemanticTier(sa, sb, model, order) ==
    LET exact == sa \cap sb
        diff_a == ListOf(sa \ exact, order)
        diff_b == ListOf(sb \ exact, order)
    IN  /\ sa # {} /\ sb # {}
        /\ diff_a # <<>> /\ diff_b # <<>>
        /\ model # "None"
        /\ \E i \in 1..Len(diff_a) : ~ContainedIn(diff_a[i], diff_b)

\* compare_cv_data(data_1, data_2) calls SEMANTIC_MODEL.encode, in the
\* matcher for a list field or in calculate_semantic_similarity for a
\* narrative field
EncodeCalled(data_1, data_2, model, order) ==
    /\ model # "None"
    /\ \/ \E field \in Range(list_fields) :
              ReachesSemanticTier(FieldSet(data_1, field),
                                  FieldSet(data_2, field), model, order)
       \/ \E field \in Range(semantic_fields) :
              BothTextsUsable(data_1, data_2, field)

---------------------------------------------------------------------------
(* State machine *)

NoCall ==
    /\ op = "idle"
    /\ set_a = {}
    /\ set_b = {}
    /\ commons = {}
    /\ data_a = <<>>
    /\ data_b = <<>>
    /\ text_cosine = 0
    /\ section_scores = <<>>
    /\ total_score = 0
    /\ args = <<>>
    /\ returned = <<>>

\* main is not running
NoMain ==
    /\ paired = <<>>
    /\ pair_index = <<0, 0>>
    /\ comparisons = <<>>
    /\ outcome = "none"

\* after the module is imported, for the matcher called on its own: the
\* model is loaded or not, and no call is in progress
InitMatcher ==
    /\ SEMANTIC_MODEL \in {"loaded", "None"}
    /\ section_weights = SECTION_WEIGHTS
    /\ iter_order \in Orders(MatchTerms)
    /\ similarity \in IF SEMANTIC_MODEL = "None" THEN {<<>>} ELSE Oracles
    /\ NoCall
    /\ NoMain

\* after the module is imported
Init ==
    /\ SEMANTIC_MODEL \in {"loaded", "None"}
    /\ section_weights = SECTION_WEIGHTS
    /\ iter_order = EngineOrder
    /\ similarity \in IF SEMANTIC_MODEL = "None" THEN {<<>>} ELSE EngineOracles
    /\ NoCall
    /\ NoMain

\* a call find_fuzzy_commons(set_a, set_b) with the default threshold
FindFuzzyCommons ==
    /\ op = "idle"
    /\ \E a \in TermSets, b \in TermSets :
        /\ set_a' = a
        /\ set_b' = b
        /\ commons' = find_fuzzy_commons(a, b, DEFAULT_THRESHOLD,
                                         SEMANTIC_MODEL, similarity, iter_order)
    /\ op' = "find_fuzzy_commons"
    /\ UNCHANGED <<process_vars, engine_vars, call_vars, main_vars>>

\* the sides the total of these scores may fall on when rounded: both when
\* it is exactly halfway between two thousandths
TieSides(scores) ==
    LET x == WeightedSum(section_weights, scores, 1, Len(section_weights))
    IN  IF 2 * ((x[1] * 1000) % x[2]) = x[2] THEN BOOLEAN ELSE {FALSE}

\* a call compare_cv_data(data_a, data_b)
CompareCvData ==
    /\ op = "idle"
    /\ \E lf \in Range(list_fields), nf \in Range(semantic_fields),
          va \in ListValues \cup {Absent}, vb \in ListValues \cup {Absent},
          ta \in TextValues \cup {Absent}, tb \in TextValues \cup {Absent} :
        \E d1 \in {MakeProfile(lf, va, nf, ta)},
           d2 \in {MakeProfile(lf, vb, nf, tb)} :
        \E cos \in IF BothTextsUsable(d1, d2, nf) THEN CosValues ELSE {0} :
        \E down \in {compare_cv_data(d1, d2, SEMANTIC_MODEL, similarity,
                                     iter_order, cos, FALSE)} :
        \E up \in TieSides(down.section_scores) :
        \E result \in {IF up THEN compare_cv_data(d1, d2, SEMANTIC_MODEL,
                                      similarity, iter_order, cos, TRUE)
                       ELSE down} :
            /\ data_a' = d1
            /\ data_b' = d2
            /\ text_cosine' = cos
            /\ section_scores' = result.section_scores
            /\ total_score' = result.total_score
    /\ op' = "compare_cv_data"
    /\ UNCHANGED <<process_vars, matcher_vars, call_vars, main_vars>>

\* the caller drops the arguments and the result; only the process-wide
\* state is kept
Return ==
    /\ op # "idle"
    /\ op' = "idle"
    /\ set_a' = {}
    /\ set_b' = {}
    /\ commons' = {}
    /\ data_a' = <<>>
    /\ data_b' = <<>>
    /\ text_cosine' = 0
    /\ section_scores' = <<>>
    /\ total_score' = 0
    /\ args' = <<>>
    /\ returned' = <<>>
    /\ UNCHANGED <<process_vars, main_vars>>

\* a call get_field_data(data, keys)
GetFieldData ==
    /\ op = "idle"
    /\ \E data \in LookupProfiles, keys \in LookupKeys :
        /\ args' = [data |-> data, keys |-> keys]
        /\ returned' = get_field_data(data, keys)
    /\ op' = "get_field_data"
    /\ UNCHANGED <<process_vars, matcher_vars, engine_vars, main_vars>>

NextLookup == GetFieldData \/ Return

SpecLookup == Init /\ [][NextLookup]_vars

\* a call normalize_set(data_list, field_type)
NormalizeSet ==
    /\ op = "idle"
    /\ \E data_list \in RawValues, field_type \in FieldTypes :
        /\ args' = [data_list |-> data_list, field_type |-> field_type]
        /\ returned' = normalize_set(data_list, field_type)
    /\ op' = "normalize_set"
    /\ UNCHANGED <<process_vars, matcher_vars, engine_vars, main_vars>>

NextNormalize == NormalizeSet \/ Return

SpecNormalize == Init /\ [][NextNormalize]_vars

\* a call calculate_semantic_similarity(text1, text2); cosine is what
\* cosine_similarity gives for the embeddings of the cleaned texts if the
\* call gets that far
CalculateSemanticSimilarity ==
    /\ op = "idle"
    /\ \E text1 \in SimilarityTexts, text2 \in SimilarityTexts,
          cosine \in TextCosines :
        /\ args' = [text1 |-> text1, text2 |-> text2, cosine |-> cosine]
        /\ returned' = calculate_semantic_similarity(text1, text2,
                                                     SEMANTIC_MODEL, cosine)
    /\ op' = "calculate_semantic_similarity"
    /\ UNCHANGED <<process_vars, matcher_vars, engine_vars, main_vars>>

NextSimilarity == CalculateSemanticSimilarity \/ Return

SpecSimilarity == Init /\ [][NextSimilarity]_vars

\* after the module is imported, for calls on whole profiles
InitProfiles ==
    /\ SEMANTIC_MODEL \in {"loaded", "None"}
    /\ section_weights = SECTION_WEIGHTS
    /\ iter_order = ProfileOrder
    /\ similarity \in IF SEMANTIC_MODEL = "None" THEN {<<>>} ELSE ProfileOracles
    /\ NoCall
    /\ NoMain

\* a call generate_report(data_a, data_b, total_score, section_scores)
GenerateReport ==
    /\ op = "idle"
    /\ \E d1 \in Profiles, d2 \in Profiles,
          total \in ReportTotals, scores \in ReportScores :
        /\ args' = [data_a |-> d1, data_b |-> d2, total_score |-> total,
                    section_scores |-> scores]
        /\ returned' = generate_report(d1, d2, total, scores, SEMANTIC_MODEL,
                                       similarity, iter_order)
    /\ op' = "generate_report"
    /\ UNCHANGED <<process_vars, matcher_vars, engine_vars, main_vars>>

NextReport == GenerateReport \/ Return

SpecReport == InitProfiles /\ [][NextReport]_vars

\* main after the uploaded files are analysed: at least two readable
\* profiles, the pairwise loop about to start
InitMain ==
    /\ SEMANTIC_MODEL \in {"loaded", "None"}
    /\ section_weights = SECTION_WEIGHTS
    /\ iter_order = ProfileOrder
    /\ similarity \in IF SEMANTIC_MODEL = "None" THEN {<<>>} ELSE ProfileOracles
    /\ NoCall
    /\ paired \in UNION {[1..n -> Profiles] : n \in 2..MaxCvs}
    /\ pair_index = <<1, 2>>
    /\ comparisons = <<>>
    /\ outcome = "running"

\* the cosines of the narrative texts of two profiles of main: one that
\* clips to 0 and one that scores
MainCosines == {-50, 90}

\* one pass of the body of the pairwise loop: compare_cv_data, then
\* generate_report on what it returned, then the append.  No statement of
\* the loop, of compare_cv_data or of generate_report catches an exception,
\* so when SEMANTIC_MODEL.encode raises one it leaves main.
ComparePair ==
    /\ outcome = "running"
    /\ LET i == pair_index[1]
           j == pair_index[2]
           n == Len(paired)
           data_i == paired[i]
           data_j == paired[j]
       IN  \E fails \in IF EncodeCalled(data_i, data_j, SEMANTIC_MODEL, iter_order)
                        THEN BOOLEAN ELSE {FALSE} :
           IF fails
           THEN /\ outcome' = "raised"
                /\ UNCHANGED <<paired, pair_index, comparisons>>
           ELSE
             \E cos \in IF \E nf \in Range(semantic_fields) :
                               BothTextsUsable(data_i, data_j, nf)
                        THEN MainCosines ELSE {0} :
             \E down \in {compare_cv_data(data_i, data_j, SEMANTIC_MODEL,
                                          similarity, iter_order, cos, FALSE)} :
             \E up \in TieSides(down.section_scores) :
             \E result \in {IF up THEN compare_cv_data(data_i, data_j,
                                           SEMANTIC_MODEL, similarity,
                                           iter_order, cos, TRUE)
                            ELSE down} :
             \E report_lines \in {generate_report(data_i, data_j,
                                      result.total_score,
                                      result.section_scores, SEMANTIC_MODEL,
                                      similarity, iter_order)} :
                /\ comparisons' = Append(comparisons,
                       [pair |-> <<i, j>>,
                        total_score |-> result.total_score,
                        section_scores |-> result.section_scores,
                        report |-> report_lines,
                        p1 |-> data_i,
                        p2 |-> data_j])
                /\ pair_index' = IF j < n THEN <<i, j + 1>>
                                 ELSE <<i + 1, i + 2>>
                /\ outcome' = IF i = n - 1 /\ j = n THEN "done" ELSE "running"
                /\ UNCHANGED paired
    /\ UNCHANGED <<process_vars, op, matcher_vars, engine_vars, call_vars>>

NextMain == ComparePair

SpecMain == InitMain /\ [][NextMain]_vars

NextMatcher == FindFuzzyCommons \/ Return

SpecMatcher == InitMatcher /\ [][NextMatcher]_vars

Next == CompareCvData \/ Return

Spec == Init /\ [][Next]_vars

Matched == op = "find_fuzzy_commons"
Compared == op = "compare_cv_data"

---------------------------------------------------------------------------
(* C1 *)

\* C1 as stated: the result of find_fuzzy_commons(A, B) has at most
\* min(|A|, |B|) elements.
C1_AtMostMin ==
    Matched =>
        /\ Cardinality(commons) <= Cardinality(set_a)
        /\ Cardinality(commons) <= Cardinality(set_b)

\* C1 amended: the result of find_fuzzy_commons(A, B) has at most |A|
\* elements, and at most |A \cap B| when A \ B or B \ A is empty.
C1_AtMostA ==
    Matched =>
        /\ Cardinality(commons) <= Cardinality(set_a)
        /\ (set_a \subseteq set_b \/ set_b \subseteq set_a)
               => Cardinality(commons) <= Cardinality(set_a \cap set_b)

\* a call whose result is larger than B with no containment at all: the
\* semantic tier matched two A-terms to the one B-term
C1_Witness ==
    /\ Matched
    /\ Cardinality(set_b) = 1
    /\ Cardinality(commons) = 2
    /\ \A x \in commons : \A y \in set_b : ~Contains(x, y) /\ ~Contains(y, x)

---------------------------------------------------------------------------
(* C2 *)

---------------------------------------------------------------------------
(* C3 *)

\* the scores compare_cv_data gives the two profiles of the state when they
\* are swapped
SwappedScores ==
    compare_cv_data(data_b, data_a, SEMANTIC_MODEL, similarity, iter_order,
                    text_cosine, FALSE).section_scores

\* C3: compare_cv_data(A, B) and compare_cv_data(B, A) give the same score
\* for every list field.
C3_ListScoresSymmetric ==
    Compared =>
        \A field \in Range(list_fields) :
            section_scores[field] = SwappedScores[field]

---------------------------------------------------------------------------
(* C4 *)

PythonExcel == List(<<Str("Python"), Str("Excel")>>)
ProgrammingMicrosoft ==
    List(<<Str("python programming"), Str("microsoft excel")>>)

\* the list fields for which A holds ["Python", "Excel"] and B holds
\* ["python programming", "microsoft excel"]
ScenarioFields ==
    {field \in Range(list_fields) :
        /\ ~FieldAbsent(data_a, field) /\ ~FieldAbsent(data_b, field)
        /\ get_field_data(data_a, <<field>>) = PythonExcel
        /\ get_field_data(data_b, <<field>>) = ProgrammingMicrosoft}

\* the terms compare_cv_data counts as common in a list field
FieldCommons(field) ==
    find_fuzzy_commons(FieldSet(data_a, field), FieldSet(data_b, field),
                       DEFAULT_THRESHOLD, SEMANTIC_MODEL, similarity, iter_order)

FieldUnion(field) == FieldSet(data_a, field) \cup FieldSet(data_b, field)

\* C4 as stated: with skills Python, Excel against python programming,
\* microsoft excel the commons have size 2, the union size 2 and the field
\* scores 1.0.
C4_UnionTwoScoreOne ==
    Compared =>
        \A field \in ScenarioFields :
            /\ Cardinality(FieldCommons(field)) = 2
            /\ Cardinality(FieldUnion(field)) = 2
            /\ section_scores[field] = ONE

\* C4 amended: with skills Python, Excel against python programming,
\* microsoft excel the containment tier matches both A terms; the commons
\* have size 2, the union size 4 and the field scores 0.5.
C4_UnionFourScoreHalf ==
    Compared =>
        \A field \in ScenarioFields :
            /\ FieldCommons(field) = {"python", "excel"}
            /\ Cardinality(FieldUnion(field)) = 4
            /\ section_scores[field] = Frac(1, 2)

\* the scenario as the skills field of a call
C4_Witness ==
    /\ Compared
    /\ YETENEKLER \in ScenarioFields
    /\ section_scores[YETENEKLER] = Frac(1, 2)

---------------------------------------------------------------------------
(* C5 *)

\* C5: for non-empty A and B every term in both A and B is in
\* find_fuzzy_commons(A, B), whichever tier is reached and whether or not
\* the model is loaded.
C5_ExactAlwaysCommon ==
    (Matched /\ set_a # {} /\ set_b # {}) => (set_a \cap set_b) \subseteq commons

\* a call without the model that went past tier 1 and kept its exact match
C5_Witness ==
    /\ Matched
    /\ SEMANTIC_MODEL = "None"
    /\ set_a \cap set_b # {}
    /\ commons \ set_b # {}
    /\ set_a \ commons # {}

---------------------------------------------------------------------------
(* C6 *)

\* the fields that have both a weight in the table and a score
WeightedAndScored(weights, scores) ==
    {weights[i][1] : i \in DOMAIN weights} \cap DOMAIN scores

\* the weight of a field in a weight table, in hundredths
WeightIn(weights, field) ==
    weights[CHOOSE i \in DOMAIN weights : weights[i][1] = field][2]

\* 100 * den times the sum, over the fields, of weight times score, for a
\* common denominator den of the scores
ScaledSum(weights, scores, fields, den) ==
    LET part == [f \in fields |->
                    WeightIn(weights, f) * scores[f][1] * (den \div scores[f][2])]
        RECURSIVE Sum(_)
        Sum(S) == IF S = {} THEN 0
                  ELSE LET f == CHOOSE x \in S : TRUE IN part[f] + Sum(S \ {f})
    IN  Sum(fields)

\* a common denominator of the scores of the fields: their product
CommonDen(scores, fields) ==
    LET RECURSIVE Product(_)
        Product(S) == IF S = {} THEN 1
                      ELSE LET f == CHOOSE x \in S : TRUE
                           IN  scores[f][2] * Product(S \ {f})
    IN  Product(fields)

\* round(sum, 3) in thousandths, either way at a tie, of the exact sum
ExpectedTotals(weights, scores) ==
    LET fields == WeightedAndScored(weights, scores)
        den == CommonDen(scores, fields)
    IN  {Round3(Frac(ScaledSum(weights, scores, fields, den), 100 * den), up) :
            up \in BOOLEAN}

\* the scenario's weight table and scores
ScenarioWeights == <<<<"A", 60>>, <<"B", 40>>>>
ScenarioScores == ("A" :> ONE) @@ ("B" :> Frac(1, 2))

\* C6: the total is the sum of weight times score over exactly the fields
\* that are both in SECTION_WEIGHTS and in the score map, rounded to 3
\* decimals; the score of PROJELER never changes the total; weights
\* {A: 0.6, B: 0.4} and scores {A: 1.0, B: 0.5} total 0.8.
C6_TotalIsWeightedSum ==
    Compared =>
        /\ total_score \in ExpectedTotals(SECTION_WEIGHTS, section_scores)
        /\ PROJELER \in DOMAIN section_scores
        /\ \A v \in {ZERO, Frac(1, 2), ONE} : \A up \in BOOLEAN :
               WeightedTotal(SECTION_WEIGHTS,
                             [section_scores EXCEPT ![PROJELER] = v], up)
                   = WeightedTotal(SECTION_WEIGHTS, section_scores, up)
        /\ \A up \in BOOLEAN :
               WeightedTotal(ScenarioWeights, ScenarioScores, up) = 800

\* a call in which PROJELER and a weighted list field both score above 0,
\* the list field neither 0 nor 1
C6_Witness ==
    /\ Compared
    /\ section_scores[PROJELER] # ZERO
    /\ \E field \in Range(list_fields) :
           section_scores[field] \notin {ZERO, ONE}
    /\ total_score > 0

---------------------------------------------------------------------------
(* C7 *)

InUnitInterval(x) == FracLeq(ZERO, x) /\ FracLeq(x, ONE)

\* C7: every per-field score compare_cv_data returns is in [0, 1], and so
\* is the total.
C7_ScoresInUnitInterval ==
    Compared =>
        /\ \A field \in DOMAIN section_scores :
               InUnitInterval(section_scores[field])
        /\ total_score >= 0
        /\ total_score <= 1000

\* a call whose two narrative texts have a negative cosine, and one of
\* whose list fields scores 1
C7_Witness ==
    /\ Compared
    /\ SEMANTIC_MODEL # "None"
    /\ text_cosine < 0
    /\ \E field \in Range(list_fields) : section_scores[field] = ONE

---------------------------------------------------------------------------
(* C8 *)

\* C8: a list field scores 0 when both sides canonicalize to the empty set
\* and 1.0 when both sides canonicalize to the same non-empty set.
C8_EmptyZeroIdenticalOne ==
    Compared =>
        \A field \in Range(list_fields) :
            LET sa == FieldSet(data_a, field)
                sb == FieldSet(data_b, field)
            IN  /\ (sa = {} /\ sb = {}) => section_scores[field] = ZERO
                /\ (sa = sb /\ sa # {}) => section_scores[field] = ONE

\* a call in which two different raw values of a field canonicalize to the
\* same non-empty set, and another field is empty on both sides
C8_Witness ==
    /\ Compared
    /\ \E field \in Range(list_fields) :
        /\ get_field_data(data_a, <<field>>) # get_field_data(data_b, <<field>>)
        /\ FieldSet(data_a, field) = FieldSet(data_b, field)
        /\ FieldSet(data_a, field) # {}
        /\ section_scores[field] = ONE
    /\ \E field \in Range(list_fields) :
        /\ FieldSet(data_a, field) = {}
        /\ FieldSet(data_b, field) = {}
        /\ section_scores[field] = ZERO

---------------------------------------------------------------------------
(* C9 *)

\* the weighted fields that one or both profiles of the state lack
AbsentWeighted ==
    {e \in Range(SECTION_WEIGHTS) :
        FieldAbsent(data_a, e[1]) \/ FieldAbsent(data_b, e[1])}

RECURSIVE WeightOf(_)
\* the sum of the weights of a set of <<field, weight>> pairs, in hundredths
WeightOf(entries) ==
    IF entries = {} THEN 0
    ELSE LET e == CHOOSE x \in entries : TRUE
         IN  e[2] + WeightOf(entries \ {e})

\* C9: a weighted field that one or both profiles lack is in the score map
\* with score 0, and the total is at most 1 less the weights of those fields.
C9_AbsentScoresZero ==
    Compared =>
        /\ \A e \in AbsentWeighted :
               /\ e[1] \in DOMAIN section_scores
               /\ section_scores[e[1]] = ZERO
        /\ total_score <= 1000 - 10 * WeightOf(AbsentWeighted)

\* a call in which one profile alone holds a weighted narrative field, both
\* lack some list field, and the total is exactly 1 less the weights of the
\* fields a profile lacks
C9_Witness ==
    /\ Compared
    /\ \E e \in AbsentWeighted :
        /\ e[1] \in Range(semantic_fields)
        /\ FieldAbsent(data_b, e[1])
        /\ ~FieldAbsent(data_a, e[1])
    /\ \E field \in Range(list_fields) :
           FieldAbsent(data_a, field) /\ FieldAbsent(data_b, field)
    /\ total_score > 0
    /\ total_score = 1000 - 10 * WeightOf(AbsentWeighted)

---------------------------------------------------------------------------
(* C10 *)

\* the exact-tier and containment-tier matches of two term sets
ExactAndContained(sa, sb) ==
    IF sa = {} \/ sb = {} THEN {}
    ELSE (sa \cap sb)
             \cup {x \in sa \ sb :
                      \E y \in sb \ sa : Contains(x, y) \/ Contains(y, x)}

\* C10: when SEMANTIC_MODEL is None, calculate_semantic_similarity returns
\* 0.0, every narrative field scores 0, and find_fuzzy_commons returns
\* exactly the exact-tier and containment-tier matches.
C10_NoModelNoSemantics ==
    (Compared /\ SEMANTIC_MODEL = "None") =>
        /\ \A field \in Range(semantic_fields) :
               /\ section_scores[field] = ZERO
               /\ \A cos \in CosValues :
                      calculate_semantic_similarity(
                          FieldText(get_field_data(data_a, <<field>>)),
                          FieldText(get_field_data(data_b, <<field>>)),
                          SEMANTIC_MODEL, cos) = ZERO
        /\ \A field \in Range(list_fields) :
               /\ FieldCommons(field)
                      = ExactAndContained(FieldSet(data_a, field),
                                          FieldSet(data_b, field))
               /\ section_scores[field]
                      = OverlapScore(
                            ExactAndContained(FieldSet(data_a, field),
                                              FieldSet(data_b, field)),
                            FieldSet(data_a, field), FieldSet(data_b, field))

\* a call without the model on two usable narrative texts of cosine 1, with
\* a list field in which an A-term stays unmatched after tiers 1 and 2
C10_Witness ==
    /\ Compared
    /\ SEMANTIC_MODEL = "None"
    /\ text_cosine = 100
    /\ \E field \in Range(list_fields) :
        /\ FieldCommons(field) # {}
        /\ FieldSet(data_a, field) \ FieldCommons(field) # {}
        /\ FieldSet(data_b, field) \ FieldSet(data_a, field) # {}

---------------------------------------------------------------------------
(* C17 *)

\* the A-terms of the call that have no exact match and that tier 2 matched
MatchedByContainment ==
    {a \in set_a \ set_b :
        \E b \in set_b \ set_a : Contains(a, b) \/ Contains(b, a)}

\* C17: a containment match consumes both sides.  Without the model only
\* tiers 1 and 2 run, so the A-terms matched by containment can then be
\* paired with B-terms, each inside or around its A-term, no B-term paired
\* twice.
C17_ContainmentConsumesB ==
    (Matched /\ SEMANTIC_MODEL = "None") =>
        \E pairing \in [MatchedByContainment -> set_b \ set_a] :
            /\ \A a \in MatchedByContainment :
                   Contains(a, pairing[a]) \/ Contains(pairing[a], a)
            /\ \A a1, a2 \in MatchedByContainment :
                   pairing[a1] = pairing[a2] => a1 = a2

---------------------------------------------------------------------------
(* C18 *)

\* the A-terms of the call left unmatched by tiers 1 and 2
UnmatchedA == (set_a \ set_b) \ MatchedByContainment

\* the highest cosine of term a over the B-side terms the code encodes: the
\* terms of B without an exact match
BestScore(a) == Max({Cos(similarity, a, b) : b \in set_b \ set_a})

\* C18: with the model loaded, an A-term left unmatched by tiers 1 and 2 is
\* in the result if and only if its highest cosine over the B-side terms is
\* strictly greater than the threshold; the terms matched earlier stay.
C18_StrictlyAboveThreshold ==
    (Matched /\ SEMANTIC_MODEL = "loaded" /\ set_b \ set_a # {}) =>
        /\ \A a \in UnmatchedA :
               a \in commons <=> BestScore(a) > DEFAULT_THRESHOLD
        /\ MatchedByContainment \cup (set_a \cap set_b) \subseteq commons

\* two unmatched A-terms whose best match is the same B-term: one scores
\* exactly the threshold and is left out, the other scores above and is in
C18_Witness ==
    /\ Matched
    /\ SEMANTIC_MODEL = "loaded"
    /\ Cardinality(set_b \ set_a) = 1
    /\ \E a1, a2 \in UnmatchedA :
        /\ BestScore(a1) = DEFAULT_THRESHOLD
        /\ a1 \notin commons
        /\ BestScore(a2) > DEFAULT_THRESHOLD
        /\ a2 \in commons

---------------------------------------------------------------------------
(* C19 *)

LookedUp == op = "get_field_data"

\* the value of data under the first of: k, k lower-cased, k with spaces
\* for underscores, k lower-cased with spaces for underscores; or otherwise
FirstPresent(data, k, otherwise) ==
    IF k \in DOMAIN data THEN data[k]
    ELSE IF PyLower(k) \in DOMAIN data THEN data[PyLower(k)]
    ELSE IF ReplaceChar(k, "_", " ") \in DOMAIN data
         THEN data[ReplaceChar(k, "_", " ")]
    ELSE IF ReplaceChar(PyLower(k), "_", " ") \in DOMAIN data
         THEN data[ReplaceChar(PyLower(k), "_", " ")]
    ELSE otherwise

---------------------------------------------------------------------------
(* C20 *)

NormalizedCall == op = "normalize_set"

\* C20: every term normalize_set returns is a non-empty string that neither
\* starts nor ends with whitespace and is longer than one character unless
\* it is "c" or "r"; a None or empty raw value gives the empty set.
C20_TermsAreCanonical ==
    NormalizedCall =>
        /\ \A term \in returned :
            /\ term # ""
            /\ ~IsSpace(At(term, 1))
            /\ ~IsSpace(At(term, Len(term)))
            /\ Len(term) > 1 \/ term \in {"c", "r"}
        /\ args.data_list \in {None, Str(""), List(<<>>), Dict(<<>>)}
               => returned = {}

\* a string whose pieces come with spaces around them: "R" and "c" are
\* kept, the single "x" is dropped
C20_Witness ==
    /\ NormalizedCall
    /\ args.data_list = Str("  R ;x, Go  lang\tc")
    /\ returned = {"r", "go", "lang", "c"}

---------------------------------------------------------------------------
(* C15 *)

SimilarityCalled == op = "calculate_semantic_similarity"

\* max(0, s) cubed, for a cosine s in hundredths
ClippedCube(s) ==
    IF s < 0 THEN ZERO ELSE Frac(s * s * s, 1000000)

\* C15: with the model loaded and both texts non-empty once cleaned, the
\* score is max(0, s) cubed for the cosine s of the cleaned texts, which
\* makes it 0.125 for s = 0.5 and 0.729 for s = 0.9, and no larger cosine
\* of the same texts gives a smaller score; the score is 0 when a text is
\* empty or is empty once cleaned, as for two empty strings.
C15_ClippedCosineCubed ==
    SimilarityCalled =>
        LET usable == /\ clean_stopwords(args.text1) # ""
                      /\ clean_stopwords(args.text2) # ""
        IN  /\ (SEMANTIC_MODEL = "loaded" /\ usable) =>
                /\ returned = ClippedCube(args.cosine)
                /\ args.cosine = 50 => returned = <<1, 8>>
                /\ args.cosine = 90 => returned = <<729, 1000>>
                /\ \A larger \in {c \in TextCosines : c >= args.cosine} :
                       FracLeq(returned,
                               calculate_semantic_similarity(
                                   args.text1, args.text2, SEMANTIC_MODEL,
                                   larger))
            /\ ~usable => returned = ZERO
            /\ (args.text1 \in {"", "ve ile"} \/ args.text2 \in {"", "ve ile"})
                   => returned = ZERO

\* a loaded model scoring two usable texts of cosine 0.9
C15_Witness ==
    /\ SimilarityCalled
    /\ SEMANTIC_MODEL = "loaded"
    /\ args.text1 = "Python geli$tirici"
    /\ args.text2 = "Proje y@netimi ve analiz"
    /\ args.cosine = 90
    /\ returned = <<729, 1000>>

---------------------------------------------------------------------------
(* C12 *)

Reported == op = "generate_report"

StartsWith(s, prefix) ==
    Len(s) >= Len(prefix) /\ SubSeq(s, 1, Len(prefix)) = prefix

VerdictLines == {HIGH_LINE, MEDIUM_LINE, LOW_LINE}

\* C12: the report holds exactly one verdict line, the highly-compatible
\* one for a total above 0.75, the moderately-compatible one for a total
\* above 0.5 and at most 0.75, the low-compatibility one for a total of at
\* most 0.5; the header is the first line, the verdict the second and the
\* experience score the third.
C12_OneVerdictByThreshold ==
    Reported =>
        /\ Len(returned) >= 3
        /\ StartsWith(returned[1], "--- Kar$|la$t|rma Raporu (Genel Skor: ")
        /\ returned[2] =
               (IF args.total_score > 750 THEN HIGH_LINE
                ELSE IF args.total_score > 500 THEN MEDIUM_LINE
                ELSE LOW_LINE)
        /\ StartsWith(returned[3], "-> DENEY^M UYUMU: %")
        /\ Cardinality({i \in 1..Len(returned) : returned[i] \in VerdictLines})
               = 1

\* a report for a total of exactly 0.75, which is moderate
C12_Witness ==
    /\ Reported
    /\ args.total_score = 750
    /\ returned[2] = MEDIUM_LINE
    /\ Len(returned) > 3

---------------------------------------------------------------------------
(* C13 *)

\* the terms of field that one profile holds and the matcher, called with
\* that profile first, did not match in the other
UnmatchedTerms(data_1, data_2, field) ==
    FieldSet(data_1, field)
        \ ReportCommon(data_1, data_2, field, SEMANTIC_MODEL, similarity,
                       iter_order)

\* the number of lines the rules of the report ask for: header, verdict,
\* experience, a line for each non-empty common set, and a line for each
\* list field with terms unique to A and for each with terms unique to B
LinesAskedFor ==
    3 + Cardinality({k \in 1..Len(check_fields) :
            ReportCommon(args.data_a, args.data_b, check_fields[k][1],
                         SEMANTIC_MODEL, similarity, iter_order) # {}})
      + Cardinality({field \in Range(list_fields) :
            UnmatchedTerms(args.data_a, args.data_b, field) # {}})
      + Cardinality({field \in Range(list_fields) :
            UnmatchedTerms(args.data_b, args.data_a, field) # {}})

\* C13: for each list field the report holds a "unique to A" line when A
\* has terms not matched in B, and a "unique to B" line when B has terms
\* not matched in A; so it holds at least the lines asked for.
C13_UniqueLines ==
    Reported => Len(returned) >= LinesAskedFor

---------------------------------------------------------------------------
(* C11 *)

\* C(n, 2) for the n profiles of the run
PairCount == (Len(paired) * (Len(paired) - 1)) \div 2

\* C11: a failure while a pair is scored does not abort the run: no
\* exception leaves main, and when main is through the loop it holds a
\* comparison for every one of the C(n, 2) pairs.
C11_FailureSparesOtherPairs ==
    /\ outcome # "raised"
    /\ outcome = "done" => Len(comparisons) = PairCount

---------------------------------------------------------------------------
(* C14 *)

\* the lines of a report that start with the common-terms title of the
\* k-th field of check_fields
TitledLines(report, k) ==
    {i \in 1..Len(report) :
        StartsWith(report[i], "-> " \o check_fields[k][2] \o ": ")}

\* the number of terms a common-terms line lists; no term holds a comma
TermsListed(line) ==
    1 + Cardinality({i \in 1..(Len(line) - 1) : SubSeq(line, i, i + 1) = ", "})

EndsWithEllipsis(line) ==
    Len(line) >= 3 /\ SubSeq(line, Len(line) - 2, Len(line)) = "..."

\* C14: in every comparison main holds, the report has the common-terms
\* line of a field of check_fields if and only if compare_cv_data scored
\* the field above 0 for the same two profiles; the line lists at most 10
\* terms and ends with "..." exactly when the field has more than 10 common
\* terms.
C14_ReportAgreesWithScores ==
    \A c \in 1..Len(comparisons) :
        \A k \in 1..Len(check_fields) :
            LET entry == comparisons[c]
                field == check_fields[k][1]
                titled == TitledLines(entry.report, k)
                common == ReportCommon(entry.p1, entry.p2, field,
                                       SEMANTIC_MODEL, similarity, iter_order)
            IN  /\ titled # {} <=> entry.section_scores[field][1] > 0
                /\ Cardinality(titled) <= 1
                /\ \A i \in titled :
                    /\ TermsListed(entry.report[i]) <= 10
                    /\ EndsWithEllipsis(entry.report[i])
                           <=> Cardinality(common) > 10

\* a comparison of two profiles with the same eleven skills: the field
\* scores 1 and its line lists ten terms and the ellipsis; and their
\* references, a field without a rule, score above 0 with no line
C14_Witness ==
    \E c \in 1..Len(comparisons) :
        LET entry == comparisons[c]
        IN  /\ entry.p1 = CvManySkills
            /\ entry.p2 = CvManySkills
            /\ entry.section_scores[YETENEKLER] = ONE
            /\ \E i \in TitledLines(entry.report, 1) :
                   /\ TermsListed(entry.report[i]) = 10
                   /\ EndsWithEllipsis(entry.report[i])
            /\ entry.section_scores[REFERANSLAR] = ONE
            /\ Len(entry.report) = 5

---------------------------------------------------------------------------
(* C16 *)

\* C16: the weights are non-negative and sum to 1.0, and no pass of the
\* loop of main, which calls compare_cv_data and generate_report, changes
\* SECTION_WEIGHTS or SEMANTIC_MODEL.
C16_WeightsAndModelFixed ==
    /\ [](/\ \A e \in Range(section_weights) : e[2] >= 0
          /\ WeightOf(Range(section_weights)) = 100)
    /\ [][/\ section_weights' = section_weights
          /\ SEMANTIC_MODEL' = SEMANTIC_MODEL]_vars

\* main through its loop after three passes, with the table as it was
\* defined
C16_Witness ==
    /\ outcome = "done"
    /\ Len(comparisons) = 3
    /\ section_weights = SECTION_WEIGHTS

=============================================================================
